---------------------------- MODULE Spec2Model ----------------------------
(***************************************************************************)
(* A model of redirs: a RESP codec (message/parse.rs, message/serialise.rs)*)
(* the command layer (command.rs) and the thread-per-connection server     *)
(* (server.rs, main.rs).                                                   *)
(*                                                                         *)
(* Bytes are one-character strings; "NUL" is the byte 0 the read buffer is *)
(* filled with, "xFF" a byte that is not valid UTF-8, and "xEF" "xBF" "xBD"*)
(* the three bytes of U+FFFD.                                              *)
(***************************************************************************)
EXTENDS Integers, Sequences, FiniteSets, TLC

(***************************************************************************)
(* Bounds of the model.                                                    *)
(***************************************************************************)
NumConns == 2
MaxFrames == 3
MaxArrayLen == 2
MaxPartial == 1
MaxFaults == 1
MaxArgs == 3

(***************************************************************************)
(* Program constants.                                                      *)
(***************************************************************************)
BUFFER_SIZE == 1024
CRLF == <<"\r", "\n">>
PONG == <<"P", "O", "N", "G">>
OK == <<"O", "K">>
\* isize::MAX, as its decimal digits (the model checker's integers are
\* narrower than isize).
IsizeMax ==
    <<"9", "2", "2", "3", "3", "7", "2", "0", "3", "6",
      "8", "5", "4", "7", "7", "5", "8", "0", "7">>

(***************************************************************************)
(* Generic helpers on sequences.                                           *)
(***************************************************************************)
Min(a, b) == IF a < b THEN a ELSE b

Take(s, n) == SubSeq(s, 1, n)

Drop(s, n) == SubSeq(s, n + 1, Len(s))

RECURSIVE Concat(_)
Concat(ss) == IF ss = <<>> THEN <<>> ELSE Head(ss) \o Concat(Tail(ss))

Zeros(n) == [k \in 1..n |-> "NUL"]

(***************************************************************************)
(* message.rs: the Message enum.  Option payloads carry `some`.            *)
(***************************************************************************)
SimpleString(s) == [type |-> "SimpleString", some |-> TRUE, val |-> s]

Error(s) == [type |-> "Error", some |-> TRUE, val |-> s]

Integer(n) == [type |-> "Integer", some |-> TRUE, val |-> n]

BulkString(s) == [type |-> "BulkString", some |-> TRUE, val |-> s]

BulkStringNone == [type |-> "BulkString", some |-> FALSE, val |-> <<>>]

Array(ms) == [type |-> "Array", some |-> TRUE, val |-> ms]

ArrayNone == [type |-> "Array", some |-> FALSE, val |-> <<>>]

Null == [type |-> "Null", some |-> TRUE, val |-> <<>>]

Bool(b) == [type |-> "Bool", some |-> TRUE, val |-> b]

\* A Double is modelled by its value in tenths (15 is 1.5).
Double(t) == [type |-> "Double", some |-> TRUE, val |-> t]

\* Message::as_bulk_string: Some(bytes) only for BulkString(Some(_)).
as_bulk_string(m) ==
    IF m.type = "BulkString" /\ m.some
    THEN [some |-> TRUE, val |-> m.val]
    ELSE [some |-> FALSE, val |-> <<>>]

\* Message::as_array: Some(elements) only for Array(Some(_)).
as_array(m) ==
    IF m.type = "Array" /\ m.some
    THEN [some |-> TRUE, val |-> m.val]
    ELSE [some |-> FALSE, val |-> <<>>]

(***************************************************************************)
(* Text conversions of the standard library, as the code uses them.        *)
(***************************************************************************)
Digits == <<"0", "1", "2", "3", "4", "5", "6", "7", "8", "9">>

IsDigit(b) == \E k \in 1..10 : Digits[k] = b

DigitVal(b) == (CHOOSE k \in 1..10 : Digits[k] = b) - 1

\* usize::to_string
RECURSIVE NatToString(_)
NatToString(n) ==
    IF n < 10 THEN <<Digits[n + 1]>>
    ELSE NatToString(n \div 10) \o <<Digits[(n % 10) + 1]>>

\* isize::to_string
IntToString(n) == IF n < 0 THEN <<"-">> \o NatToString(-n) ELSE NatToString(n)

\* The value of a string of decimal digits.
RECURSIVE DigitsValue(_)
DigitsValue(s) ==
    IF s = <<>> THEN 0
    ELSE 10 * DigitsValue(Take(s, Len(s) - 1)) + DigitVal(s[Len(s)])

\* str::parse::<isize> on a string of digits only (the caller has stripped
\* the sign): fails on the empty string and on overflow.
RECURSIVE StripZeros(_)
StripZeros(s) ==
    IF Len(s) > 1 /\ Head(s) = "0" THEN StripZeros(Tail(s)) ELSE s

\* Whether digit string a (no leading zeros) is at most digit string b.
DigitsLeq(a, b) ==
    \/ Len(a) < Len(b)
    \/ /\ Len(a) = Len(b)
       /\ \/ a = b
          \/ \E k \in 1..Len(a) :
                /\ \A j \in 1..(k - 1) : a[j] = b[j]
                /\ DigitVal(a[k]) < DigitVal(b[k])

ParseIsize(s) ==
    IF s = <<>> THEN [ok |-> FALSE, val |-> 0]
    ELSE IF ~DigitsLeq(StripZeros(s), IsizeMax) THEN [ok |-> FALSE, val |-> 0]
    ELSE [ok |-> TRUE, val |-> DigitsValue(StripZeros(s))]

\* String::from_utf8_lossy(..).to_string(): an invalid byte becomes U+FFFD.
RECURSIVE FromUtf8Lossy(_)
FromUtf8Lossy(s) ==
    IF s = <<>> THEN <<>>
    ELSE (IF Head(s) = "xFF" THEN <<"xEF", "xBF", "xBD">> ELSE <<Head(s)>>)
         \o FromUtf8Lossy(Tail(s))

\* str::from_utf8(..).is_ok()
IsUtf8(s) == \A k \in 1..Len(s) : s[k] # "xFF"

\* f64::to_string, for values that are whole tenths: 1.0 prints "1".
DoubleToString(t) ==
    LET a == IF t < 0 THEN -t ELSE t
    IN  (IF t < 0 THEN <<"-">> ELSE <<>>)
        \o NatToString(a \div 10)
        \o (IF a % 10 = 0 THEN <<>> ELSE <<".", Digits[(a % 10) + 1]>>)

\* str::parse::<f64>, for decimal literals [sign] digits [. digits] with at
\* most one significant fractional digit; anything else is a parse error.
ParseF64(s) ==
    LET signed == s # <<>> /\ s[1] \in {"+", "-"}
        body == IF signed THEN Tail(s) ELSE s
        dots == {k \in 1..Len(body) : body[k] = "."}
        ipart == IF dots = {} THEN body
                 ELSE Take(body, (CHOOSE k \in dots : TRUE) - 1)
        fpart == IF dots = {} THEN <<>>
                 ELSE Drop(body, CHOOSE k \in dots : TRUE)
        wellformed ==
            /\ Cardinality(dots) <= 1
            /\ Len(ipart) + Len(fpart) >= 1
            /\ \A k \in 1..Len(ipart) : IsDigit(ipart[k])
            /\ \A k \in 1..Len(fpart) : IsDigit(fpart[k])
            /\ \A k \in 2..Len(fpart) : fpart[k] = "0"
        mag == 10 * DigitsValue(ipart)
               + (IF fpart = <<>> THEN 0 ELSE DigitVal(fpart[1]))
    IN  IF ~wellformed THEN [ok |-> FALSE, val |-> 0]
        ELSE [ok |-> TRUE,
              val |-> IF signed /\ s[1] = "-" THEN -mag ELSE mag]

\* [u8]::to_ascii_lowercase
Upper == <<"P", "I", "N", "G", "E", "C", "H", "O", "S", "T", "D", "L">>

Lower == <<"p", "i", "n", "g", "e", "c", "h", "o", "s", "t", "d", "l">>

LowerByte(b) ==
    IF \E k \in 1..Len(Upper) : Upper[k] = b
    THEN Lower[CHOOSE k \in 1..Len(Upper) : Upper[k] = b]
    ELSE b

\* Mutant: the bytes are left as they were sent.
to_ascii_lowercase_Unchanged(s) == s

to_ascii_lowercase(s) == [k \in 1..Len(s) |-> LowerByte(s[k])]

(***************************************************************************)
(* A parser input is a byte slice.  The server parses its whole read       *)
(* buffer, whose tail is zero bytes: a slice is held as its leading bytes  *)
(* `d` followed by `z` zero bytes, so that the 1024-byte buffer needs no   *)
(* 1024-element sequence.                                                  *)
(***************************************************************************)
Slice(d, z) == [d |-> d, z |-> z]

Bytes(d) == Slice(d, 0)

ILen(i) == Len(i.d) + i.z

\* i.get(0): the first byte, when there is one.
IGet0(i) ==
    IF Len(i.d) > 0 THEN [some |-> TRUE, val |-> i.d[1]]
    ELSE IF i.z > 0 THEN [some |-> TRUE, val |-> "NUL"]
    ELSE [some |-> FALSE, val |-> "NUL"]

\* &i[n..], for n <= ILen(i) (Rust panics otherwise; callers test first).
IDrop(i, n) ==
    IF n <= Len(i.d) THEN Slice(Drop(i.d, n), i.z)
    ELSE Slice(<<>>, i.z - (n - Len(i.d)))

\* &i[..n], for n <= ILen(i), as the bytes it holds.
ITake(i, n) ==
    IF n <= Len(i.d) THEN Take(i.d, n)
    ELSE i.d \o Zeros(n - Len(i.d))

\* i.windows(2).position(|window| window == CRLF): -1 stands for None.  A
\* zero byte is neither CR nor LF, so only `d` can hold the terminator.
PositionCRLF(i) ==
    LET hits == {p \in 0..(Len(i.d) - 2) :
                    i.d[p + 1] = "\r" /\ i.d[p + 2] = "\n"}
    IN  IF hits = {} THEN -1
        ELSE CHOOSE p \in hits : \A q \in hits : p <= q

\* i.windows(1).position(|window| !window[0].is_ascii_digit()): -1 is None.
PositionNonDigit(i) ==
    LET hits == {p \in 0..(Len(i.d) - 1) : ~IsDigit(i.d[p + 1])}
    IN  IF hits # {} THEN CHOOSE p \in hits : \A q \in hits : p <= q
        ELSE IF i.z > 0 THEN Len(i.d)
        ELSE -1

(***************************************************************************)
(* Outcomes of the parse functions: Ok((remaining, value)), Err(&str), or  *)
(* a panic (unwrap on None/Err, a slice index out of range, assert_eq!,    *)
(* panic!()).                                                              *)
(***************************************************************************)
POk(rest, m) == [tag |-> "Ok", rest |-> rest, msg |-> m]

PErr(e) == [tag |-> "Err", err |-> e]

PPanic == [tag |-> "Panic"]

\* Result::unwrap: an Err panics.
Unwrap(r) == IF r.tag = "Err" THEN PPanic ELSE r

\* macro check_tag!: consumes the tag byte; panics when the input is empty
\* or starts with another byte.
check_tag(target, i) ==
    IF ~IGet0(i).some THEN PPanic
    ELSE IF IGet0(i).val # target THEN PPanic
    ELSE POk(IDrop(i, 1), target)

parse_simple_string(i0) ==
    LET t == check_tag("+", i0)
    IN  IF t.tag = "Panic" THEN PPanic
        ELSE LET i == t.rest
                 pos == PositionCRLF(i)
             IN  IF pos >= 0
                 THEN POk(IDrop(i, pos + 2),
                          SimpleString(FromUtf8Lossy(ITake(i, pos))))
                 ELSE PErr("simple string parse error")

\* parse_error builds Message::SimpleString, as the source does.
parse_error(i0) ==
    LET t == check_tag("-", i0)
    IN  IF t.tag = "Panic" THEN PPanic
        ELSE LET i == t.rest
                 pos == PositionCRLF(i)
             IN  IF pos >= 0
                 THEN POk(IDrop(i, pos + 2),
                          SimpleString(FromUtf8Lossy(ITake(i, pos))))
                 ELSE PErr("error parse error")

\* The value is returned in `msg`.
parse_signed_integer(i0) ==
    IF ~IGet0(i0).some THEN PPanic
    ELSE LET maybe_sign == IGet0(i0).val
             i == IF maybe_sign \in {"+", "-"} THEN IDrop(i0, 1) ELSE i0
             pos == PositionNonDigit(i)
         IN  IF pos < 0 THEN PErr("parse signed int error")
             ELSE LET n == ParseIsize(ITake(i, pos))
                  IN  IF ~n.ok THEN PPanic
                      ELSE POk(IDrop(i, pos),
                               IF maybe_sign = "-" THEN -n.val ELSE n.val)

parse_integer(i0) ==
    LET t == check_tag(":", i0)
    IN  IF t.tag = "Panic" THEN PPanic
        ELSE LET r == Unwrap(parse_signed_integer(t.rest))
             IN  IF r.tag = "Panic" THEN PPanic
                 ELSE IF ILen(r.rest) < 2 THEN PPanic
                 ELSE POk(IDrop(r.rest, 2), Integer(r.msg))

\* (length as usize) > len: a negative isize becomes a usize of at least
\* 2^63, above the length of any slice.
AsUsizeExceeds(n, len) == IF n < 0 THEN TRUE ELSE n > len

parse_bulk_string(i0) ==
    LET t == check_tag("$", i0)
    IN  IF t.tag = "Panic" THEN PPanic
        ELSE LET r == Unwrap(parse_signed_integer(t.rest))
             IN  IF r.tag = "Panic" THEN PPanic
                 ELSE IF ILen(r.rest) < 2 THEN PPanic
                 ELSE IF r.msg = -1 THEN POk(IDrop(r.rest, 2), BulkStringNone)
                 ELSE LET i == IDrop(r.rest, 2)
                          length == r.msg
                      IN  IF AsUsizeExceeds(length, ILen(i)) THEN PPanic
                          ELSE IF length + 2 > ILen(i) THEN PPanic
                          ELSE POk(IDrop(i, length + 2),
                                   BulkString(FromUtf8Lossy(ITake(i, length))))

parse_null(i0) ==
    LET t == check_tag("_", i0)
    IN  IF t.tag = "Panic" THEN PPanic
        ELSE IF ILen(t.rest) < 2 THEN PPanic
        ELSE POk(IDrop(t.rest, 2), Null)

parse_bool(i0) ==
    LET t == check_tag("#", i0)
    IN  IF t.tag = "Panic" THEN PPanic
        ELSE IF ~IGet0(t.rest).some THEN PPanic
        ELSE IF IGet0(t.rest).val \notin {"t", "f"} THEN PPanic
        ELSE IF ILen(t.rest) < 3 THEN PPanic
        ELSE POk(IDrop(t.rest, 3), Bool(IGet0(t.rest).val = "t"))

parse_double(i0) ==
    LET t == check_tag(",", i0)
    IN  IF t.tag = "Panic" THEN PPanic
        ELSE LET i == t.rest
                 pos == PositionCRLF(i)
             IN  IF pos < 0 THEN PErr("")
                 ELSE LET content == ITake(i, pos)
                      IN  IF ~IsUtf8(content) THEN PPanic
                          ELSE IF ~ParseF64(content).ok THEN PPanic
                          ELSE POk(IDrop(i, pos + 2),
                                   Double(ParseF64(content).val))

RECURSIVE parse_message(_)
RECURSIVE parse_elements(_, _, _)

\* The loop of parse_array: `for _ in 0..length { parse_message(i).unwrap() }`.
\* An element consumes at least its tag byte, so a count above the bytes
\* left always ends in the panic of a failed element.
parse_elements(i, n, acc) ==
    IF n = 0 THEN POk(i, Array(acc))
    ELSE IF AsUsizeExceeds(n, ILen(i)) THEN PPanic
    ELSE LET r == Unwrap(parse_message(i))
         IN  IF r.tag = "Panic" THEN PPanic
             ELSE parse_elements(r.rest, n - 1, Append(acc, r.msg))

parse_array(i0) ==
    LET t == check_tag("*", i0)
    IN  IF t.tag = "Panic" THEN PPanic
        ELSE LET r == Unwrap(parse_signed_integer(t.rest))
             IN  IF r.tag = "Panic" THEN PPanic
                 ELSE IF ILen(r.rest) < 2 THEN PPanic
                 ELSE IF r.msg = -1 THEN POk(IDrop(r.rest, 2), ArrayNone)
                 ELSE parse_elements(IDrop(r.rest, 2), r.msg, <<>>)

\* Main export: every Err of a sub-parser is unwrapped, so the outcome is
\* Ok or a panic.
parse_message(i) ==
    IF ~IGet0(i).some THEN PPanic
    ELSE LET tag == IGet0(i).val
         IN  Unwrap(CASE tag = "+" -> parse_simple_string(i)
                      [] tag = "-" -> parse_error(i)
                      [] tag = ":" -> parse_integer(i)
                      [] tag = "$" -> parse_bulk_string(i)
                      [] tag = "*" -> parse_array(i)
                      [] tag = "_" -> parse_null(i)
                      [] tag = "#" -> parse_bool(i)
                      [] tag = "," -> parse_double(i)
                      [] OTHER -> PPanic)

(***************************************************************************)
(* serialise.rs: the bytes written for a Message.                          *)
(***************************************************************************)
serialise_simple_string(string) == <<"+">> \o string \o CRLF

serialise_error(error) == <<"-">> \o error \o CRLF

serialise_integer(n) == <<":">> \o IntToString(n) \o CRLF

\* Mutant: the null bulk string is written as the empty one.
serialise_bulk_string_NullAsEmpty(m) ==
    <<"$">> \o NatToString(Len(m.val)) \o CRLF \o m.val \o CRLF

serialise_bulk_string(m) ==
    IF m.some
    THEN <<"$">> \o NatToString(Len(m.val)) \o CRLF \o m.val \o CRLF
    ELSE <<"$", "-", "1", "\r", "\n">>

serialise_null == <<"_", "\r", "\n">>

serialise_bool(b) ==
    IF b THEN <<"#", "t", "\r", "\n">> ELSE <<"#", "f", "\r", "\n">>

serialise_double(t) == <<",">> \o DoubleToString(t) \o CRLF

RECURSIVE serialise_message(_)

serialise_array(m) ==
    IF m.some
    THEN <<"*">> \o NatToString(Len(m.val)) \o CRLF
         \o Concat([k \in 1..Len(m.val) |-> serialise_message(m.val[k])])
    ELSE <<"*", "-", "1", "\r", "\n">>

serialise_message(m) ==
    CASE m.type = "SimpleString" -> serialise_simple_string(m.val)
      [] m.type = "Error" -> serialise_error(m.val)
      [] m.type = "Integer" -> serialise_integer(m.val)
      [] m.type = "BulkString" -> serialise_bulk_string(m)
      [] m.type = "Array" -> serialise_array(m)
      [] m.type = "Null" -> serialise_null
      [] m.type = "Bool" -> serialise_bool(m.val)
      [] m.type = "Double" -> serialise_double(m.val)

(***************************************************************************)
(* command.rs: Command, parse_command, handle_command.                     *)
(***************************************************************************)
CmdPING == [name |-> "PING", key |-> <<>>, val |-> <<>>]

CmdECHO(string) == [name |-> "ECHO", key |-> <<>>, val |-> string]

CmdSET(key, value) == [name |-> "SET", key |-> key, val |-> value]

CmdGET(key) == [name |-> "GET", key |-> key, val |-> <<>>]

COk(cmd) == [tag |-> "Ok", cmd |-> cmd]

\* A CommandParseError: its variant, and what its text is about.
CErr(kind, reason, about) ==
    [tag |-> "Err", kind |-> kind, reason |-> reason, about |-> about]

\* macro check_arg_len!
ArityError(cmd_name) == CErr("InvalidArguments", "Wrong number of arguments", cmd_name)

\* macro unwrap_bulk_string!
TypeError == CErr("InvalidArguments", "Argument not a BulkString", <<>>)

parse_ping(arguments) ==
    IF Len(arguments) # 0 THEN ArityError(<<"E", "C", "H", "O">>)
    ELSE COk(CmdPING)

parse_echo(arguments) ==
    IF Len(arguments) # 1 THEN ArityError(<<"E", "C", "H", "O">>)
    ELSE IF ~as_bulk_string(arguments[1]).some THEN TypeError
    ELSE COk(CmdECHO(as_bulk_string(arguments[1]).val))

parse_set(arguments) ==
    IF Len(arguments) # 2 THEN ArityError(<<"S", "E", "T">>)
    ELSE IF ~as_bulk_string(arguments[1]).some THEN TypeError
    ELSE IF ~as_bulk_string(arguments[2]).some THEN TypeError
    ELSE COk(CmdSET(as_bulk_string(arguments[1]).val,
                    as_bulk_string(arguments[2]).val))

parse_get(arguments) ==
    IF Len(arguments) # 1 THEN ArityError(<<"G", "E", "T">>)
    ELSE IF ~as_bulk_string(arguments[1]).some THEN TypeError
    ELSE COk(CmdGET(as_bulk_string(arguments[1]).val))

\* Message::to_string: the serialised bytes, as lossy UTF-8 text.
to_string(message) == FromUtf8Lossy(serialise_message(message))

parse_command(message) ==
    IF ~as_array(message).some
    THEN CErr("InvalidMessageFormat", "message", to_string(message))
    ELSE LET messages == as_array(message).val
         IN  IF messages = <<>>
             THEN CErr("InvalidMessageFormat", "message", to_string(message))
             ELSE IF ~as_bulk_string(messages[1]).some
             THEN CErr("InvalidCommand", "message", to_string(message))
             ELSE LET command == to_ascii_lowercase(as_bulk_string(messages[1]).val)
                      arguments == Tail(messages)
                  IN  CASE command = <<"p", "i", "n", "g">> -> parse_ping(arguments)
                        [] command = <<"e", "c", "h", "o">> -> parse_echo(arguments)
                        [] command = <<"s", "e", "t">> -> parse_set(arguments)
                        [] command = <<"g", "e", "t">> -> parse_get(arguments)
                        [] OTHER -> CErr("InvalidCommand", "name",
                                         FromUtf8Lossy(command))

(***************************************************************************)
(* DashMap<Vec<u8>, Vec<u8>>, as a function from its keys.  Each operation *)
(* takes the key's shard lock, so it is one atomic step.                    *)
(***************************************************************************)
EmptyDB == [k \in {} |-> <<>>]

\* Mutant: the entry is created, an existing one is kept (entry().or_insert).
DashInsertKeepOld(db, key, value) ==
    [k \in (DOMAIN db) \cup {key} |-> IF k \in DOMAIN db THEN db[k] ELSE value]

\* Mutant: an overwrite that is not atomic leaves bytes of both values.
DashInsertTorn(db, key, value) ==
    [k \in (DOMAIN db) \cup {key} |->
        IF k # key THEN db[k]
        ELSE IF key \in DOMAIN db THEN value \o db[key] ELSE value]

\* DashMap::insert: the entry is created or overwritten.
DashInsert(db, key, value) ==
    [k \in (DOMAIN db) \cup {key} |-> IF k = key THEN value ELSE db[k]]

\* Mutant: an absent key reads as the empty value (unwrap_or_default).
DashGetDefault(db, key) ==
    IF key \in DOMAIN db THEN [some |-> TRUE, val |-> db[key]]
    ELSE [some |-> TRUE, val |-> <<>>]

\* DashMap::get
DashGet(db, key) ==
    IF key \in DOMAIN db THEN [some |-> TRUE, val |-> db[key]]
    ELSE [some |-> FALSE, val |-> <<>>]

\* DashMap::clone: a new map holding a copy of every entry (DashMap is not
\* a handle; there is no Arc around it).
DashClone(db) == [k \in DOMAIN db |-> db[k]]

\* Mutant: a Get of an absent key creates it (entry().or_default()).
HandleDbGetCreates(command, db) ==
    IF command.name = "SET" THEN DashInsert(db, command.key, command.val)
    ELSE IF command.name = "GET" /\ command.key \notin DOMAIN db
    THEN DashInsert(db, command.key, <<>>)
    ELSE db

\* Mutant: a Get takes the entry out (DashMap::remove for DashMap::get).
HandleDbGetRemoves(command, db) ==
    IF command.name = "SET" THEN DashInsert(db, command.key, command.val)
    ELSE IF command.name = "GET"
    THEN [k \in (DOMAIN db) \ {command.key} |-> db[k]]
    ELSE db

\* What handle_command does to the db.
HandleDb(command, db) ==
    IF command.name = "SET" THEN DashInsert(db, command.key, command.val)
    ELSE db

\* Mutant: PING is answered with the simple string +PONG.
HandleReplyPingSimple(command, db) ==
    CASE command.name = "PING" -> SimpleString(PONG)
      [] command.name = "ECHO" -> BulkString(command.val)
      [] command.name = "SET" -> BulkString(OK)
      [] command.name = "GET" ->
            IF DashGet(db, command.key).some
            THEN BulkString(DashGet(db, command.key).val)
            ELSE BulkStringNone

\* The reply handle_command serialises.
HandleReply(command, db) ==
    CASE command.name = "PING" -> BulkString(PONG)
      [] command.name = "ECHO" -> BulkString(command.val)
      [] command.name = "SET" -> BulkString(OK)
      [] command.name = "GET" ->
            IF DashGet(db, command.key).some
            THEN BulkString(DashGet(db, command.key).val)
            ELSE BulkStringNone

handle_command(command, db) ==
    [db |-> HandleDb(command, db), reply |-> HandleReply(command, db)]

(***************************************************************************)
(* The state: main.rs and server.rs, one worker thread per connection.     *)
(***************************************************************************)
VARIABLES
    listener_db,  \* the DashMap main creates and listen owns
    state,        \* per connection: where its worker is
    db,           \* per connection: the db handle_client was given
    buffer,       \* per connection: the bytes of `buffer` before its zero tail
    sock_in,      \* per connection: bytes the client sent, not yet read
    peer_closed,  \* per connection: the client has closed its end
    out,          \* per connection: the replies written to the stream
    last,         \* per connection: what the last processed frame came to
    nsent,        \* frames sent by all clients
    setlog,       \* every executed Set, in order: its connection, key, value
    listener,     \* listen: whether its accept loop runs, the accepts that failed
    born,         \* per connection: the failed accepts before it was accepted
    nfaults,      \* transport failures so far
    wbroken,      \* per connection: writes to its stream fail
    failed,       \* per connection: the I/O call that returned Err, if any
    c_msg,        \* the Message under test
    c_bytes,      \* the bytes under test
    c_res,        \* the outcome of the function under test
    c_pc          \* start, encoded, prefix, decoded, decoded_prefix, parsed,
                  \* raw, decoded_raw, replied

fault_vars == <<listener, born, nfaults, wbroken, failed>>

server_vars ==
    <<listener_db, state, db, buffer, sock_in, peer_closed, out, last, nsent,
      setlog, fault_vars>>

codec_vars == <<c_msg, c_bytes, c_res, c_pc>>

vars == <<server_vars, codec_vars>>

Conns == 1..NumConns

Live == {"Reading", "Processing"}

(***************************************************************************)
(* What the clients send.                                                  *)
(***************************************************************************)
Keys == {<<"k">>, <<"j">>}

Values == {<<"a">>, <<"b">>}

Request(words) == serialise_message(Array([k \in 1..Len(words) |-> BulkString(words[k])]))

GoodRequests ==
    {Request(<<<<"P", "I", "N", "G">>>>)}
    \cup {Request(<<<<"E", "C", "H", "O">>, <<"a">>>>)}
    \cup {Request(<<<<"S", "E", "T">>, <<"k">>, v>>) : v \in Values}
    \cup {Request(<<<<"S", "E", "T">>, <<"j">>, <<"a">>>>)}
    \cup {Request(<<<<"G", "E", "T">>, k>>) : k \in Keys}

\* Frames that decode but are no command.
BadCommands ==
    { Request(<<<<"S", "E", "T">>>>),
      serialise_message(SimpleString(<<"h", "i">>)) }

\* Bytes that are no frame.
BadFrames == { <<"!", "\r", "\n">> }

Requests == GoodRequests \cup BadCommands \cup BadFrames

\* The frames sent where the transport may fail.
FaultRequests ==
    { Request(<<<<"S", "E", "T">>, <<"k">>, <<"a">>>>),
      Request(<<<<"G", "E", "T">>, <<"k">>>>) }

\* What the last frame a worker processed came to: `kind` is none, executed,
\* dropped, command_error, decode_error or eof; for an executed command,
\* `before` is the worker's db before it, `at` the length of setlog before
\* it, `gets` the reply and `at` of the worker's latest Get of each key (this
\* command included) and `pget` the entry of this command's key before it.
NoGet == [some |-> FALSE, reply |-> Null, at |-> 0]

NoLast ==
    [kind |-> "none", cmd |-> CmdPING, reply |-> Null, before |-> EmptyDB,
     at |-> 0, gets |-> EmptyDB, pget |-> NoGet]

\* The Sets of setlog at positions from+1..to that wrote `key`.
SetsOn(key, from, to) ==
    {i \in (from + 1)..to : setlog[i].key = key}

\* The value of the latest Set of `key` among the first n of setlog that
\* satisfy `mine` (a set of connections).
LatestSet(key, n, mine) ==
    LET hits == {i \in 1..n : setlog[i].key = key /\ setlog[i].conn \in mine}
    IN  IF hits = {} THEN [some |-> FALSE, val |-> <<>>]
        ELSE [some |-> TRUE,
              val |-> setlog[CHOOSE i \in hits : \A j \in hits : j <= i].val]

\* The values Sets of `key` by the connections `mine` have written.
Written(key, mine) ==
    {setlog[i].val : i \in {j \in 1..Len(setlog) :
                               setlog[j].key = key /\ setlog[j].conn \in mine}}

\* main: one empty DashMap, no connection yet.
InitServer ==
    /\ listener_db = EmptyDB
    /\ state = [c \in Conns |-> "Unaccepted"]
    /\ db = [c \in Conns |-> EmptyDB]
    /\ buffer = [c \in Conns |-> <<>>]
    /\ sock_in = [c \in Conns |-> <<>>]
    /\ peer_closed = [c \in Conns |-> FALSE]
    /\ out = [c \in Conns |-> <<>>]
    /\ last = [c \in Conns |-> NoLast]
    /\ nsent = 0
    /\ setlog = <<>>
    /\ listener = [listening |-> TRUE, fails |-> 0]
    /\ born = [c \in Conns |-> 0]
    /\ nfaults = 0
    /\ wbroken = [c \in Conns |-> FALSE]
    /\ failed = [c \in Conns |-> "none"]

Init ==
    /\ InitServer
    /\ c_msg = Null
    /\ c_bytes = <<>>
    /\ c_res = PPanic
    /\ c_pc = "idle"

(***************************************************************************)
(* server.rs listen: an accepted stream gets db.clone() and a new thread.  *)
(***************************************************************************)
Accept(c) ==
    /\ listener.listening
    /\ state[c] = "Unaccepted"
    /\ state' = [state EXCEPT ![c] = "Reading"]
    /\ db' = [db EXCEPT ![c] = DashClone(listener_db)]
    /\ born' = [born EXCEPT ![c] = listener.fails]
    /\ UNCHANGED <<listener_db, buffer, sock_in, peer_closed, out, last,
                   nsent, setlog, listener, nfaults, wbroken, failed,
                   codec_vars>>

\* Mutant: a failed accept ends the loop (`?` or `break` in the Err arm).
AcceptFailStops ==
    /\ listener.listening
    /\ nfaults < MaxFaults
    /\ listener' = [listening |-> FALSE, fails |-> listener.fails + 1]
    /\ nfaults' = nfaults + 1
    /\ UNCHANGED <<listener_db, state, db, buffer, sock_in, peer_closed, out,
                   last, nsent, setlog, born, wbroken, failed, codec_vars>>

\* The Err(e) arm of the accept loop: eprintln!, then the next iteration.
AcceptFail ==
    /\ listener.listening
    /\ nfaults < MaxFaults
    /\ listener' = [listener EXCEPT !.fails = @ + 1]
    /\ nfaults' = nfaults + 1
    /\ UNCHANGED <<listener_db, state, db, buffer, sock_in, peer_closed, out,
                   last, nsent, setlog, born, wbroken, failed, codec_vars>>

(***************************************************************************)
(* The clients: send a request, or close.                                  *)
(***************************************************************************)
ClientSendOf(c, frames) ==
    /\ state[c] \in Live
    /\ ~peer_closed[c]
    /\ nsent < MaxFrames
    /\ sock_in[c] = <<>>
    /\ \E f \in frames : sock_in' = [sock_in EXCEPT ![c] = f]
    /\ nsent' = nsent + 1
    /\ UNCHANGED <<listener_db, state, db, buffer, peer_closed, out, last,
                   setlog, fault_vars, codec_vars>>

ClientSend(c) == ClientSendOf(c, Requests)

ClientClose(c) ==
    /\ state[c] \in Live
    /\ ~peer_closed[c]
    /\ sock_in[c] = <<>>
    /\ peer_closed' = [peer_closed EXCEPT ![c] = TRUE]
    /\ UNCHANGED <<listener_db, state, db, buffer, sock_in, out, last, nsent,
                   setlog, fault_vars, codec_vars>>

\* The transport of a connection fails for writes from now on (the peer
\* has reset it); bytes already received stay readable.  The worker can
\* see the failure at its next write only, so the step is taken while the
\* worker is between its read and that write.
StreamBreaks(c) ==
    /\ state[c] = "Processing"
    /\ ~wbroken[c]
    /\ nfaults < MaxFaults
    /\ wbroken' = [wbroken EXCEPT ![c] = TRUE]
    /\ nfaults' = nfaults + 1
    /\ UNCHANGED <<listener_db, state, db, buffer, sock_in, peer_closed, out,
                   last, nsent, setlog, listener, born, failed, codec_vars>>

(***************************************************************************)
(* server.rs handle_client.                                                *)
(***************************************************************************)
\* The worker thread ends (break, or a panic unwinding): its db and stream
\* are dropped.
WorkerEnds(c, how, kind) ==
    /\ state' = [state EXCEPT ![c] = how]
    /\ db' = [db EXCEPT ![c] = EmptyDB]
    /\ buffer' = [buffer EXCEPT ![c] = <<>>]
    /\ sock_in' = [sock_in EXCEPT ![c] = <<>>]
    /\ last' = [last EXCEPT ![c] = [NoLast EXCEPT !.kind = kind]]

\* stream.read(&mut buffer) returns Ok(0): the client disconnected.
ReadEof(c) ==
    /\ state[c] = "Reading"
    /\ sock_in[c] = <<>>
    /\ peer_closed[c]
    /\ WorkerEnds(c, "Closed", "eof")
    /\ UNCHANGED <<listener_db, peer_closed, out, nsent, setlog, fault_vars,
                   codec_vars>>

\* stream.read(&mut buffer) returns Err(_): the arm is todo!(), a panic.
ReadErr(c) ==
    /\ state[c] = "Reading"
    /\ nfaults < MaxFaults
    /\ WorkerEnds(c, "Panicked", "read_error")
    /\ failed' = [failed EXCEPT ![c] = "read"]
    /\ nfaults' = nfaults + 1
    /\ UNCHANGED <<listener_db, peer_closed, out, nsent, setlog, listener,
                   born, wbroken, codec_vars>>

\* The sizes a read of `avail` pending bytes may return: all that fits the
\* buffer, or only the first few bytes.
ReadSizes(avail) ==
    {Min(avail, BUFFER_SIZE)} \cup {n \in 1..MaxPartial : n < avail}

\* stream.read(&mut buffer) returns Ok(n), n > 0: the first n bytes of the
\* buffer are overwritten, the rest keeps what it held.
ReadSome(c) ==
    /\ state[c] = "Reading"
    /\ sock_in[c] # <<>>
    /\ \E n \in ReadSizes(Len(sock_in[c])) :
          /\ buffer' = [buffer EXCEPT
                          ![c] = Take(sock_in[c], n) \o Drop(buffer[c], Min(n, Len(buffer[c])))]
          /\ sock_in' = [sock_in EXCEPT ![c] = Drop(sock_in[c], n)]
    /\ state' = [state EXCEPT ![c] = "Processing"]
    /\ UNCHANGED <<listener_db, db, peer_closed, out, last, nsent, setlog,
                   fault_vars, codec_vars>>

\* parse_message(&buffer[..]): the whole buffer, zero tail included.
Decoded(c) == parse_message(Slice(buffer[c], BUFFER_SIZE - Len(buffer[c])))

\* The latest Gets of a worker, after it executed `cmd`.
GetsAfter(gets, cmd, reply, at) ==
    IF cmd.name = "GET"
    THEN [k \in (DOMAIN gets) \cup {cmd.key} |->
            IF k = cmd.key THEN [some |-> TRUE, reply |-> reply, at |-> at]
            ELSE gets[k]]
    ELSE gets

\* The worker's latest Get of the key of `cmd`, if any.
PriorGet(gets, cmd) ==
    IF cmd.name = "GET" /\ cmd.key \in DOMAIN gets THEN gets[cmd.key] ELSE NoGet

\* Mutant: the bytes after the handled message are kept and decoded next,
\* without a read (a loop over the remaining bytes the decoder returned).
AfterMessageDrains(c, message) ==
    LET rest == Drop(buffer[c], Min(Len(buffer[c]), Len(serialise_message(message))))
    IN  IF rest = <<>> THEN [buffer |-> <<>>, state |-> "Reading"]
        ELSE [buffer |-> rest, state |-> "Processing"]

\* What handle_client does once handle_message has returned: the bytes the
\* decoder left are dropped (`Ok((_, message))`), buffer.fill(0), and the
\* loop goes to its next read.
AfterMessage(c, message) == [buffer |-> <<>>, state |-> "Reading"]

\* handle_message: parse_command(message).unwrap(), handle_command, write_all
\* (`let _ =`: an Err of write_all is dropped).  Back in handle_client the
\* buffer is zeroed.
HandleMessage(c, message) ==
    \E cmd \in {parse_command(message)} :
        IF cmd.tag = "Err"
        THEN /\ WorkerEnds(c, "Panicked", "command_error")
             /\ UNCHANGED <<out, setlog, failed>>
        ELSE \E h \in {handle_command(cmd.cmd, db[c])} :
                 /\ db' = [db EXCEPT ![c] = h.db]
                 /\ out' = IF wbroken[c] THEN out
                            ELSE [out EXCEPT
                                    ![c] = Append(@, serialise_message(h.reply))]
                 /\ failed' = IF wbroken[c]
                               THEN [failed EXCEPT ![c] = "write"]
                               ELSE failed
                 /\ buffer' = [buffer EXCEPT ![c] = AfterMessage(c, message).buffer]
                 /\ state' = [state EXCEPT ![c] = AfterMessage(c, message).state]
                 /\ last' = [last EXCEPT
                               ![c] = [kind |-> "executed", cmd |-> cmd.cmd,
                                       reply |-> h.reply, before |-> db[c],
                                       at |-> Len(setlog),
                                       gets |-> GetsAfter(last[c].gets, cmd.cmd,
                                                          h.reply, Len(setlog)),
                                       pget |-> PriorGet(last[c].gets, cmd.cmd)]]
                 /\ setlog' = IF cmd.cmd.name = "SET"
                              THEN Append(setlog,
                                          [conn |-> c, key |-> cmd.cmd.key,
                                           val |-> cmd.cmd.val])
                              ELSE setlog
                 /\ UNCHANGED sock_in

\* The Ok(_) arm of handle_client.
Process(c) ==
    /\ state[c] = "Processing"
    /\ \E r \in {Decoded(c)} :
           CASE r.tag = "Panic" ->
                  /\ WorkerEnds(c, "Panicked", "decode_error")
                  /\ UNCHANGED <<out, setlog, failed>>
             [] r.tag = "Err" ->
                  \* `if let Ok(..)` fails: nothing is written or cleared.
                  /\ state' = [state EXCEPT ![c] = "Reading"]
                  /\ last' = [last EXCEPT ![c] = [NoLast EXCEPT !.kind = "dropped"]]
                  /\ UNCHANGED <<db, buffer, sock_in, out, setlog, failed>>
             [] r.tag = "Ok" -> HandleMessage(c, r.msg)
    /\ UNCHANGED <<listener_db, peer_closed, nsent, listener, born, nfaults,
                   wbroken, codec_vars>>

Next ==
    \E c \in Conns :
        \/ Accept(c)
        \/ ClientSend(c)
        \/ ClientClose(c)
        \/ ReadEof(c)
        \/ ReadSome(c)
        \/ Process(c)

Spec == Init /\ [][Next]_vars

(***************************************************************************)
(* The server with transport failures: an accept, a read or the writes of  *)
(* a connection may fail.                                                  *)
(***************************************************************************)
NextIO ==
    \/ AcceptFail
    \/ \E c \in Conns :
          \/ Accept(c)
          \/ ClientSendOf(c, FaultRequests)
          \/ ClientClose(c)
          \/ ReadEof(c)
          \/ ReadErr(c)
          \/ ReadSome(c)
          \/ StreamBreaks(c)
          \/ Process(c)

SpecIO == Init /\ [][NextIO]_vars

(***************************************************************************)
(* The server with clients that pipeline: two commands are sent at once,   *)
(* and one read can deliver both.                                          *)
(***************************************************************************)
PipeFrames ==
    { Request(<<<<"S", "E", "T">>, <<"k">>, <<"a">>>>),
      Request(<<<<"G", "E", "T">>, <<"k">>>>),
      Request(<<<<"P", "I", "N", "G">>>>) }

PipelinedRequests == {f \o g : f \in PipeFrames, g \in PipeFrames}

NextPipe ==
    \E c \in Conns :
        \/ Accept(c)
        \/ ClientSendOf(c, PipelinedRequests)
        \/ ClientClose(c)
        \/ ReadEof(c)
        \/ ReadSome(c)
        \/ Process(c)

SpecPipe == Init /\ [][NextPipe]_vars

(***************************************************************************)
(* The codec on its own: a Message is serialised, the bytes are decoded    *)
(* whole or cut to a strict prefix.                                        *)
(***************************************************************************)
Payloads == {<<>>, <<"a">>, <<"a", "b">>}

BinaryPayloads == {<<"\r", "\n">>, <<"a", "\r", "\n", "b">>, <<"xFF">>}

Scalars ==
    {SimpleString(p) : p \in Payloads}
    \cup {Error(p) : p \in Payloads}
    \cup {Integer(n) : n \in {-12, 0, 7}}
    \cup {BulkString(p) : p \in Payloads \cup BinaryPayloads}
    \cup {BulkStringNone, ArrayNone, Null, Bool(TRUE), Bool(FALSE)}
    \cup {Double(t) : t \in {-15, 0, 20, 305}}

\* The elements the arrays under test are built from.
Elements ==
    {SimpleString(<<"a">>), Integer(7), BulkString(<<"a">>), BulkStringNone, Null}

SeqsUpTo(S, n) == UNION {[1..k -> S] : k \in 0..n}

Arrays1 == {Array(ms) : ms \in SeqsUpTo(Elements, MaxArrayLen)}

Arrays2 == {Array(<<a, Integer(0)>>) : a \in {Array(<<>>), Array(<<Null>>), ArrayNone}}

Arrays3 == {Array(<<Array(<<a>>)>>) : a \in Arrays2}

CodecMessages == Scalars \cup Arrays1 \cup Arrays2 \cup Arrays3

CodecInit ==
    /\ InitServer
    /\ c_msg \in CodecMessages
    /\ c_bytes = <<>>
    /\ c_res = PPanic
    /\ c_pc = "start"

Encode ==
    /\ c_pc = "start"
    /\ c_bytes' = serialise_message(c_msg)
    /\ c_pc' = "encoded"
    /\ UNCHANGED <<c_msg, c_res, server_vars>>

Truncate ==
    /\ c_pc = "encoded"
    /\ \E n \in 0..(Len(c_bytes) - 1) : c_bytes' = Take(c_bytes, n)
    /\ c_pc' = "prefix"
    /\ UNCHANGED <<c_msg, c_res, server_vars>>

Decode ==
    /\ c_pc \in {"encoded", "prefix"}
    /\ c_res' = parse_message(Bytes(c_bytes))
    /\ c_pc' = IF c_pc = "encoded" THEN "decoded" ELSE "decoded_prefix"
    /\ UNCHANGED <<c_msg, c_bytes, server_vars>>

CodecNext == Encode \/ Truncate \/ Decode

SpecCodec == CodecInit /\ [][CodecNext]_vars

(***************************************************************************)
(* The decoder on bytes as a client may send them, well-formed or not, and *)
(* handle_message on the Message they decode to.                           *)
(***************************************************************************)
\* Inputs that are empty or start with a byte that is no type tag.
UnknownInputs ==
    { <<>>, <<"!", "\r", "\n">>, <<"a">>, <<"NUL">>, <<"?", "a", "b", "c">> }

\* The same inside an array, as its first or as a later element.
UnknownElementInputs ==
    {<<"*", "1", "\r", "\n">> \o u : u \in UnknownInputs}
    \cup {<<"*", "2", "\r", "\n", ":", "1", "\r", "\n">> \o u : u \in UnknownInputs}

\* A BulkString or Array header with declared length n, and what follows.
LengthFrame(tag, n, tail) == <<tag>> \o IntToString(n) \o CRLF \o tail

Lengths == {-1, -2, -10}

Tails == {<<>>, <<"a", "b", "\r", "\n">>, <<":", "1", "\r", "\n">>}

LengthInputs ==
    {LengthFrame(tag, n, tail) : tag \in {"$", "*"}, n \in Lengths, tail \in Tails}

\* An Integer frame: the tag, a content, a terminator, and what follows.
IntegerFrame(content, term, tail) == <<":">> \o content \o term \o tail

IntegerContents ==
    { <<"1", "2", "3">>, <<"-", "1", "2", "3">>, <<"+", "5">>, <<"0">>,
      <<"0", "7">>, <<"a", "b", "c">>, <<>>, <<"-">>, <<"1", "2", "a">>,
      <<"1", " ", "2">>,
      <<"9", "9", "9", "9", "9", "9", "9", "9", "9", "9",
        "9", "9", "9", "9", "9", "9", "9", "9", "9", "9">> }

Terminators == {CRLF, <<"\r">>, <<>>, <<"\n", "\r">>}

IntegerTails == {<<>>, <<"+", "a", "\r", "\n">>}

IntegerInputs ==
    {IntegerFrame(content, term, tail) :
        content \in IntegerContents, term \in Terminators, tail \in IntegerTails}

\* Bulk string payloads of any bytes, and an ECHO of each.
BytePayloads ==
    Payloads \cup BinaryPayloads \cup {<<"NUL">>, <<"\r">>, <<"\n", "xFF", "\r", "\n">>}

BulkInputs == {serialise_message(BulkString(p)) : p \in BytePayloads}

EchoInputs == {Request(<<<<"E", "C", "H", "O">>, p>>) : p \in BytePayloads}

\* The elements of well-formed arrays, of every variant, nested ones too.
ArrayElements ==
    { <<>>,
      <<SimpleString(<<"a">>), Integer(7), BulkString(<<"a", "b">>)>>,
      <<BulkStringNone>>,
      <<BulkString(<<"a">>), BulkStringNone, BulkString(<<"b">>)>>,
      <<Array(<<Integer(0)>>), Null>>,
      <<ArrayNone, Bool(TRUE), Double(15)>>,
      <<Array(<<Array(<<>>), BulkString(<<>>)>>), Bool(FALSE)>>,
      <<SimpleString(<<"a">>), BulkString(<<"b">>), Integer(-12), Error(<<"a">>)>> }

ArrayTails == {<<>>, <<":", "1", "\r", "\n">>, <<"x">>}

ArrayInputs ==
    {serialise_message(Array(ms)) \o tail : ms \in ArrayElements, tail \in ArrayTails}

\* Arrays with an element that is missing, cut short or without terminator.
BrokenArrayInputs ==
    { <<"*", "3", "\r", "\n", "+", "a", "\r", "\n", ":", "7", "\r", "\n">>,
      <<"*", "2", "\r", "\n", ":", "7", "\r", "\n", "+", "a">>,
      <<"*", "1", "\r", "\n", "$", "5", "\r", "\n", "a", "b", "\r", "\n">>,
      <<"*", "1", "\r", "\n", ",", "1", ".", "5">>,
      <<"*", "1", "\r", "\n", "*", "1", "\r", "\n">> }

RawInputs ==
    UnknownInputs \cup UnknownElementInputs \cup LengthInputs
    \cup IntegerInputs \cup BulkInputs \cup EchoInputs
    \cup ArrayInputs \cup BrokenArrayInputs

RawInit ==
    /\ InitServer
    /\ c_msg = Null
    /\ c_bytes \in RawInputs
    /\ c_res = PPanic
    /\ c_pc = "raw"

DecodeRaw ==
    /\ c_pc = "raw"
    /\ c_res' = parse_message(Bytes(c_bytes))
    /\ c_pc' = "decoded_raw"
    /\ UNCHANGED <<c_msg, c_bytes, server_vars>>

\* handle_message on the decoded Message, with a db that holds nothing: the
\* reply it serialises is kept in c_msg.
ReplyRaw ==
    /\ c_pc = "decoded_raw"
    /\ c_res.tag = "Ok"
    /\ parse_command(c_res.msg).tag = "Ok"
    /\ c_msg' = handle_command(parse_command(c_res.msg).cmd, EmptyDB).reply
    /\ c_pc' = "replied"
    /\ UNCHANGED <<c_bytes, c_res, server_vars>>

RawNext == DecodeRaw \/ ReplyRaw

SpecRaw == RawInit /\ [][RawNext]_vars

(***************************************************************************)
(* The command layer on its own: parse_command on a decoded Message.       *)
(***************************************************************************)
CommandNames ==
    { <<"P", "I", "N", "G">>, <<"p", "i", "n", "g">>, <<"P", "i", "N", "g">>,
      <<"E", "C", "H", "O">>, <<"e", "c", "h", "o">>,
      <<"S", "E", "T">>, <<"s", "e", "t">>,
      <<"G", "E", "T">>, <<"g", "E", "t">>,
      <<"D", "E", "L">>, <<"d", "e", "l">>, <<"P", "I", "N", "G", "S">>,
      <<"G", "E">>, <<>>, <<"xFF">> }

Arguments ==
    {BulkString(<<"a">>), BulkString(<<"k">>), BulkStringNone, Integer(7)}

\* Arrays whose first element is a non-null bulk string.
NamedArrays ==
    {Array(<<BulkString(n)>> \o args) :
        n \in CommandNames, args \in SeqsUpTo(Arguments, MaxArgs)}

\* Messages of any other shape.
UnnamedMessages ==
    { SimpleString(<<"P", "I", "N", "G">>), BulkString(<<"P", "I", "N", "G">>),
      BulkStringNone, Integer(7), Null, ArrayNone, Array(<<>>),
      Array(<<BulkStringNone>>), Array(<<BulkStringNone, BulkString(<<"a">>)>>),
      Array(<<Integer(7)>>), Array(<<SimpleString(<<"P", "I", "N", "G">>)>>),
      Array(<<Array(<<BulkString(<<"P", "I", "N", "G">>)>>)>>) }

CommandMessages == NamedArrays \cup UnnamedMessages

CommandInit ==
    /\ InitServer
    /\ c_msg \in CommandMessages
    /\ c_bytes = <<>>
    /\ c_res = PPanic
    /\ c_pc = "start"

ParseCommand ==
    /\ c_pc = "start"
    /\ c_res' = parse_command(c_msg)
    /\ c_pc' = "parsed"
    /\ UNCHANGED <<c_msg, c_bytes, server_vars>>

SpecCommand == CommandInit /\ [][ParseCommand]_vars

(***************************************************************************)
(* C1.  All connections operate on one Store: a Get(k) on any connection   *)
(* replies with the value of the latest Set(k, v) executed on any          *)
(* connection, and null only when no connection has Set k.                 *)
(* listen hands every worker db.clone(), a copy, so this fails.            *)
(***************************************************************************)
C1_OneSharedStore ==
    \A c \in Conns :
        (last[c].kind = "executed" /\ last[c].cmd.name = "GET") =>
            LET v == LatestSet(last[c].cmd.key, last[c].at, Conns)
            IN  last[c].reply = IF v.some THEN BulkString(v.val) ELSE BulkStringNone

(***************************************************************************)
(* C2.  Last-write-wins on one connection: when a connection has Set a key *)
(* (its latest Set of it wrote v) and no other connection has Set that     *)
(* key, its next Get of the key replies BulkString(Some(v)).               *)
(***************************************************************************)
C2_LastWriteWins ==
    \A c \in Conns :
        LET k == last[c].cmd.key
            v == LatestSet(k, last[c].at, {c})
        IN  ( /\ last[c].kind = "executed"
              /\ last[c].cmd.name = "GET"
              /\ v.some
              /\ Written(k, Conns \ {c}) = {} )
            => last[c].reply = BulkString(v.val)

\* A connection has Set one key to two different values and then read the
\* second one back.
C2_Witness ==
    \E c \in Conns :
        /\ last[c].kind = "executed"
        /\ last[c].cmd.name = "GET"
        /\ Cardinality(Written(last[c].cmd.key, {c})) = 2
        /\ last[c].reply = BulkString(LatestSet(last[c].cmd.key, last[c].at, {c}).val)

(***************************************************************************)
(* C3.  A frame that decodes but is no command gets an Error reply, and    *)
(* the connection stays open in Reading.                                   *)
(* handle_message unwraps parse_command's Err: the worker panics.          *)
(***************************************************************************)
IsErrorReply(bytes) == bytes # <<>> /\ bytes[1] = "-"

C3_CommandErrorReplied ==
    \A c \in Conns :
        last[c].kind = "command_error" =>
            /\ state[c] = "Reading"
            /\ out[c] # <<>>
            /\ IsErrorReply(out[c][Len(out[c])])

(***************************************************************************)
(* C4.  Bytes that fail to decode get an Error reply and the worker lives  *)
(* on.  parse_message panics on every failure: no reply, the worker ends.  *)
(***************************************************************************)
C4_DecodeErrorReplied ==
    \A c \in Conns :
        last[c].kind = "decode_error" =>
            /\ state[c] \in Live
            /\ out[c] # <<>>
            /\ IsErrorReply(out[c][Len(out[c])])

(***************************************************************************)
(* C5.  Round trip: decoding the encoding of a Message yields that Message *)
(* and no remaining bytes.  parse_error builds a SimpleString.             *)
(***************************************************************************)
C5_RoundTrip ==
    c_pc = "decoded" =>
        /\ c_res.tag = "Ok"
        /\ c_res.msg = c_msg
        /\ ILen(c_res.rest) = 0

(***************************************************************************)
(* C6.  Partial input: decoding a strict prefix of an encoded frame        *)
(* returns an error value; it neither panics nor yields a Message.         *)
(***************************************************************************)
C6_PrefixIsError ==
    c_pc = "decoded_prefix" => c_res.tag = "Err"

(***************************************************************************)
(* C7.  Get(k) replies BulkString(Some(value)) with the value stored under *)
(* k when k is present in the worker's db, written "$<len>\r\n<value>\r\n",*)
(* and replies the null bulk string, written "$-1\r\n", when no Set has    *)
(* written k to that db.                                                   *)
(***************************************************************************)
C7_GetReply ==
    \A c \in Conns :
        (last[c].kind = "executed" /\ last[c].cmd.name = "GET") =>
            LET k == last[c].cmd.key
                wire == out[c][Len(out[c])]
            IN  /\ k \in DOMAIN last[c].before =>
                      /\ last[c].reply = BulkString(last[c].before[k])
                      /\ wire = <<"$">> \o NatToString(Len(last[c].before[k]))
                                \o <<"\r", "\n">> \o last[c].before[k]
                                \o <<"\r", "\n">>
                /\ ~LatestSet(k, last[c].at, {c}).some =>
                      /\ last[c].reply = BulkStringNone
                      /\ wire = <<"$", "-", "1", "\r", "\n">>

\* One worker has read back a key it holds, another has got the null reply.
C7_Witness ==
    \E c, d \in Conns :
        /\ last[c].kind = "executed" /\ last[c].cmd.name = "GET"
        /\ last[c].cmd.key \in DOMAIN last[c].before
        /\ last[d].kind = "executed" /\ last[d].cmd.name = "GET"
        /\ last[d].reply = BulkStringNone
        /\ out[d][Len(out[d])] = <<"$", "-", "1", "\r", "\n">>

(***************************************************************************)
(* C8.  Get never mutates the Store and is idempotent: a Get leaves the    *)
(* worker's db exactly as it was, and replies as the worker's previous Get *)
(* of the same key did when no Set of that key was executed in between.    *)
(***************************************************************************)
C8_GetReadOnly ==
    \A c \in Conns :
        (last[c].kind = "executed" /\ last[c].cmd.name = "GET") =>
            /\ db[c] = last[c].before
            /\ ( /\ last[c].pget.some
                 /\ SetsOn(last[c].cmd.key, last[c].pget.at, last[c].at) = {} )
               => last[c].reply = last[c].pget.reply

\* A worker has got a key it holds twice, with no Set of it in between.
C8_Witness ==
    \E c \in Conns :
        /\ last[c].kind = "executed" /\ last[c].cmd.name = "GET"
        /\ last[c].pget.some
        /\ SetsOn(last[c].cmd.key, last[c].pget.at, last[c].at) = {}
        /\ last[c].cmd.key \in DOMAIN db[c]

C10_WholeValues ==
    \A c \in Conns :
        /\ (last[c].kind = "executed" /\ last[c].cmd.name = "GET") =>
              \/ last[c].reply = BulkStringNone
              \/ /\ last[c].reply.type = "BulkString"
                 /\ last[c].reply.some
                 /\ last[c].reply.val \in Written(last[c].cmd.key, Conns)
        /\ \A k \in DOMAIN db[c] : db[c][k] \in Written(k, Conns)

\* Two connections have Set the same key to different values, and a Get of
\* that key executed after both Sets got a value.
C10_Witness ==
    \E c, d \in Conns :
        /\ c # d
        /\ last[c].kind = "executed" /\ last[c].cmd.name = "GET"
        /\ Written(last[c].cmd.key, {c}) # {}
        /\ Written(last[c].cmd.key, {d}) # {}
        /\ Cardinality(Written(last[c].cmd.key, Conns)) = 2
        /\ Cardinality(SetsOn(last[c].cmd.key, 0, last[c].at)) = 2
        /\ last[c].reply # BulkStringNone

(***************************************************************************)
(* C11.  A transport read or write failure is connection-fatal: once an    *)
(* I/O call on a connection has returned an error, the handler serves that *)
(* connection no more (its worker has exited).                             *)
(* handle_message drops the Err of write_all, and handle_client reads on.  *)
(***************************************************************************)
C11_IoFailureFatal ==
    \A c \in Conns : failed[c] # "none" => state[c] \notin Live

(***************************************************************************)
(* C12.  Closed is terminal and entered on peer close: a read that returns *)
(* zero bytes takes the handler to Closed, in Closed no command is         *)
(* executed and no reply written, and after every processed frame the      *)
(* handler is back in Reading.                                             *)
(* A frame that fails to decode, or is no command, ends the worker in a    *)
(* panic instead (C3, C4).                                                 *)
(***************************************************************************)
C12_ClosedTerminalReadingResumes ==
    [][\A c \in Conns :
          /\ (state[c] = "Reading" /\ sock_in[c] = <<>> /\ peer_closed[c]
                 /\ state'[c] # state[c])
                => state'[c] = "Closed"
          /\ state[c] = "Closed" =>
                /\ state'[c] = "Closed"
                /\ out'[c] = out[c]
                /\ db'[c] = db[c]
                /\ last'[c] = last[c]
          /\ (state[c] = "Processing" /\ state'[c] # state[c])
                => state'[c] = "Reading"]_vars

(***************************************************************************)
(* C13.  The accept loop never stops on a failed accept: the loop runs in  *)
(* every reachable state, and a connection waiting to be accepted can be   *)
(* accepted (and is given a worker of its own) whatever the other workers  *)
(* are doing.                                                              *)
(***************************************************************************)
C13_AcceptLoopGoesOn ==
    /\ listener.listening
    /\ \A c \in Conns : state[c] = "Unaccepted" => ENABLED Accept(c)
    /\ \A c \in Conns : born[c] > 0 => state[c] # "Unaccepted"

\* A connection was accepted after an accept had failed, and is served
\* while the worker of another connection is busy with a frame.
C13_Witness ==
    \E c, d \in Conns :
        /\ born[c] > 0
        /\ state[c] = "Reading"
        /\ state[d] = "Processing"

(***************************************************************************)
(* What the claims on parse_command speak of: the name and the arguments   *)
(* of an array whose first element is a non-null bulk string.              *)
(***************************************************************************)
HasName(m) ==
    /\ m.type = "Array" /\ m.some /\ m.val # <<>>
    /\ m.val[1].type = "BulkString" /\ m.val[1].some

NameOf(m) == m.val[1].val

ArgsOf(m) == Tail(m.val)

\* Two bytes that are equal, or the upper and lower case of one letter.
SameByteIgnoringCase(x, y) ==
    x = y \/ \E k \in 1..Len(Upper) : {x, y} = {Upper[k], Lower[k]}

SameIgnoringCase(a, b) ==
    Len(a) = Len(b) /\ \A k \in 1..Len(a) : SameByteIgnoringCase(a[k], b[k])

KnownNames ==
    { <<"P", "I", "N", "G">>, <<"E", "C", "H", "O">>, <<"S", "E", "T">>,
      <<"G", "E", "T">> }

NameString(X) ==
    CASE X = <<"P", "I", "N", "G">> -> "PING"
      [] X = <<"E", "C", "H", "O">> -> "ECHO"
      [] X = <<"S", "E", "T">> -> "SET"
      [] X = <<"G", "E", "T">> -> "GET"

Arity(X) ==
    CASE X = <<"P", "I", "N", "G">> -> 0
      [] X = <<"E", "C", "H", "O">> -> 1
      [] X = <<"S", "E", "T">> -> 2
      [] X = <<"G", "E", "T">> -> 1

AllBulk(args) ==
    \A k \in 1..Len(args) : args[k].type = "BulkString" /\ args[k].some

IsUnknown(n) == \A X \in KnownNames : ~SameIgnoringCase(n, X)

\* The result is what the parser of command X gives: that command, or a
\* complaint about its arguments.
Selects(r, X, args) ==
    IF Len(args) = Arity(X) /\ AllBulk(args)
    THEN r.tag = "Ok" /\ r.cmd.name = NameString(X)
    ELSE r.tag = "Err" /\ r.kind = "InvalidArguments"

(***************************************************************************)
(* C14 as stated.  Command-name matching is case-insensitive and closed:   *)
(* a name equal to PING, ECHO, SET or GET ignoring ASCII case selects that *)
(* command, and every other name gives the unknown-command error carrying  *)
(* that name.  The error carries the name in lower case.                   *)
(***************************************************************************)
C14_UnknownCarriesName ==
    (c_pc = "parsed" /\ HasName(c_msg)) =>
        /\ \A X \in KnownNames :
              SameIgnoringCase(NameOf(c_msg), X) => Selects(c_res, X, ArgsOf(c_msg))
        /\ IsUnknown(NameOf(c_msg)) =>
              /\ c_res.tag = "Err"
              /\ c_res.kind = "InvalidCommand"
              /\ c_res.about = NameOf(c_msg)

(***************************************************************************)
(* C14, amended.  Command-name matching is case-insensitive and closed: a  *)
(* name equal to PING, ECHO, SET or GET ignoring ASCII case selects that   *)
(* command, and every other name gives the unknown-command error carrying  *)
(* that name as text in ASCII lower case (a byte that is not UTF-8 shown   *)
(* as U+FFFD).                                                             *)
(***************************************************************************)
C14_ClosedCaseInsensitive ==
    (c_pc = "parsed" /\ HasName(c_msg)) =>
        /\ \A X \in KnownNames :
              SameIgnoringCase(NameOf(c_msg), X) => Selects(c_res, X, ArgsOf(c_msg))
        /\ IsUnknown(NameOf(c_msg)) =>
              /\ c_res.tag = "Err"
              /\ c_res.kind = "InvalidCommand"
              /\ c_res.reason = "name"
              /\ SameIgnoringCase(c_res.about, FromUtf8Lossy(NameOf(c_msg)))
              /\ \A k \in 1..Len(c_res.about) :
                    \A u \in 1..Len(Upper) : c_res.about[k] # Upper[u]

\* A name in mixed case has selected its command.
C14_Witness ==
    /\ c_pc = "parsed"
    /\ HasName(c_msg)
    /\ NameOf(c_msg) = <<"P", "i", "N", "g">>
    /\ c_res.tag = "Ok"
    /\ c_res.cmd.name = "PING"

(***************************************************************************)
(* C15.  Strict arity and argument typing: a known command yields a        *)
(* Command only with exactly 0 (PING), 1 (ECHO), 2 (SET), 1 (GET)          *)
(* arguments that are all non-null bulk strings; otherwise the error is    *)
(* InvalidArguments, the arity message differs from the type message and   *)
(* names the command that was invoked.                                     *)
(* parse_ping names ECHO.                                                  *)
(***************************************************************************)
C15_StrictArityAndTypes ==
    (c_pc = "parsed" /\ HasName(c_msg)) =>
        \A X \in KnownNames :
            SameIgnoringCase(NameOf(c_msg), X) =>
                LET args == ArgsOf(c_msg)
                IN  /\ Selects(c_res, X, args)
                    /\ c_res.tag = "Ok" =>
                          c_res.cmd =
                              CASE X = <<"P", "I", "N", "G">> -> CmdPING
                                [] X = <<"E", "C", "H", "O">> -> CmdECHO(args[1].val)
                                [] X = <<"S", "E", "T">> ->
                                      CmdSET(args[1].val, args[2].val)
                                [] X = <<"G", "E", "T">> -> CmdGET(args[1].val)
                    /\ Len(args) # Arity(X) =>
                          /\ c_res.reason = "Wrong number of arguments"
                          /\ c_res.about = X
                    /\ (Len(args) = Arity(X) /\ ~AllBulk(args)) =>
                          c_res.reason = "Argument not a BulkString"

(***************************************************************************)
(* C16.  parse_command returns the InvalidFormat error, and no other kind, *)
(* when the message is not a non-null Array, when the array is empty, and  *)
(* when the first element of the array is not a non-null BulkString.       *)
(* In the last case the code returns InvalidCommand.                       *)
(***************************************************************************)
C16_InvalidFormat ==
    (c_pc = "parsed" /\ ~HasName(c_msg)) =>
        /\ c_res.tag = "Err"
        /\ c_res.kind = "InvalidMessageFormat"

(***************************************************************************)
(* C17.  Decoding an empty input, or an input whose first byte is none of  *)
(* + - : $ * _ # , returns an error value (UnknownType) and does not       *)
(* panic, also when such input stands as an element inside an array.       *)
(* parse_message unwraps i.get(0) and panics on any other byte.            *)
(***************************************************************************)
C17_UnknownTypeIsError ==
    (c_pc = "decoded_raw" /\ c_bytes \in UnknownInputs \cup UnknownElementInputs)
        => c_res.tag = "Err"

(***************************************************************************)
(* C18.  Length -1 is the only null sentinel: a BulkString or Array of     *)
(* declared length -1 decodes to the null form, the remaining bytes being  *)
(* all that follows the length line, and one of declared length below -1   *)
(* gives an error value (InvalidLength), neither a message nor a panic.    *)
(* The code casts the length to usize and panics on the slice or element.  *)
(***************************************************************************)
C18_OnlyMinusOneIsNull ==
    c_pc = "decoded_raw" =>
        \A tag \in {"$", "*"}, n \in Lengths, tail \in Tails :
            c_bytes = LengthFrame(tag, n, tail) =>
                IF n = -1
                THEN c_res = POk(Bytes(tail),
                                 IF tag = "$" THEN BulkStringNone ELSE ArrayNone)
                ELSE c_res.tag = "Err"

(***************************************************************************)
(* C19.  Integer decoding accepts exactly an optional sign, one or more    *)
(* decimal digits and the terminator, yielding that signed value and the   *)
(* bytes after the terminator; non-digit content, no digit, or a missing   *)
(* or cut terminator gives an error value, never a message or a panic.     *)
(***************************************************************************)
IsSign(b) == b \in {"+", "-"}

Unsigned(content) ==
    IF content # <<>> /\ IsSign(content[1]) THEN Tail(content) ELSE content

WellFormedInteger(content) ==
    /\ Unsigned(content) # <<>>
    /\ \A k \in 1..Len(Unsigned(content)) : IsDigit(Unsigned(content)[k])

\* The value, for a content short enough to be held.
SignedValue(content) ==
    IF content[1] = "-" THEN -DigitsValue(Unsigned(content))
    ELSE DigitsValue(Unsigned(content))

C19_IntegerGrammar ==
    c_pc = "decoded_raw" =>
        \A content \in IntegerContents, term \in Terminators, tail \in IntegerTails :
            c_bytes = IntegerFrame(content, term, tail) =>
                IF WellFormedInteger(content) /\ term = CRLF /\ Len(content) < 10
                THEN c_res = POk(Bytes(tail), Integer(SignedValue(content)))
                ELSE IF WellFormedInteger(content) /\ term = CRLF
                THEN TRUE   \* a value beyond isize: the claim is silent
                ELSE c_res.tag = "Err"

(***************************************************************************)
(* C20.  Binary safety: a bulk string frame of declared length N with a    *)
(* body p of any N bytes, CR LF included, decodes to BulkString(Some(p))   *)
(* with p unchanged, and ECHO of p replies the bytes of p.                 *)
(* The decoder passes the body through String::from_utf8_lossy.            *)
(***************************************************************************)
C20_BinarySafe ==
    \A p \in BytePayloads :
        /\ (c_pc = "decoded_raw" /\ c_bytes = serialise_message(BulkString(p)))
              => c_res = POk(Bytes(<<>>), BulkString(p))
        /\ (c_pc = "replied" /\ c_bytes = Request(<<<<"E", "C", "H", "O">>, p>>))
              => /\ c_msg = BulkString(p)
                 /\ serialise_message(c_msg) = serialise_message(BulkString(p))

(***************************************************************************)
(* C21.  Executing a Command never fails and yields one well-formed reply: *)
(* Ping replies BulkString(Some("PONG")), Echo(s) replies                  *)
(* BulkString(Some(s)), Set replies BulkString(Some("OK")); Ping and Echo  *)
(* leave the Store unchanged.  The reply is the last thing written.        *)
(***************************************************************************)
C21_CommandReplies ==
    \A c \in Conns :
        last[c].kind = "executed" =>
            LET cmd == last[c].cmd
                wire == out[c][Len(out[c])]
            IN  /\ state[c] \in Live
                /\ out[c] # <<>>
                /\ cmd.name = "PING" =>
                      /\ last[c].reply = BulkString(<<"P", "O", "N", "G">>)
                      /\ wire = <<"$", "4", "\r", "\n", "P", "O", "N", "G", "\r", "\n">>
                      /\ db[c] = last[c].before
                /\ cmd.name = "ECHO" =>
                      /\ last[c].reply = BulkString(cmd.val)
                      /\ wire = <<"$">> \o NatToString(Len(cmd.val)) \o <<"\r", "\n">>
                                \o cmd.val \o <<"\r", "\n">>
                      /\ db[c] = last[c].before
                /\ cmd.name = "SET" =>
                      /\ last[c].reply = BulkString(<<"O", "K">>)
                      /\ wire = <<"$", "2", "\r", "\n", "O", "K", "\r", "\n">>

\* A worker whose db holds a key has answered a Ping, another an Echo.
C21_Witness ==
    \E c, d \in Conns :
        /\ last[c].kind = "executed" /\ last[c].cmd.name = "PING"
        /\ db[c] # EmptyDB
        /\ last[d].kind = "executed" /\ last[d].cmd.name = "ECHO"
        /\ out[d][Len(out[d])] = <<"$", "1", "\r", "\n", "a", "\r", "\n">>

(***************************************************************************)
(* C24.  No out-of-thin-air values: each value stored under a key k, and   *)
(* each non-null value a Get(k) returns, is byte for byte the value of an  *)
(* earlier executed Set(k, v) on that Store (the db of the worker); a      *)
(* Store is empty until its first Set.                                     *)
(***************************************************************************)
\* The values the first n Sets of setlog wrote to `key` on connection c.
WrittenBefore(key, c, n) ==
    {setlog[i].val : i \in {j \in 1..n : setlog[j].key = key /\ setlog[j].conn = c}}

C24_NoThinAirValues ==
    /\ listener_db = EmptyDB
    /\ \A c \in Conns :
          /\ \A k \in DOMAIN db[c] : db[c][k] \in WrittenBefore(k, c, Len(setlog))
          /\ (\A i \in 1..Len(setlog) : setlog[i].conn # c) => db[c] = EmptyDB
          /\ (last[c].kind = "executed" /\ last[c].cmd.name = "GET"
                 /\ last[c].reply # BulkStringNone)
                => /\ last[c].reply.type = "BulkString"
                   /\ last[c].reply.val
                         \in WrittenBefore(last[c].cmd.key, c, last[c].at)

\* A worker that has Set two keys has got the value of one of them.
C24_Witness ==
    \E c \in Conns :
        /\ last[c].kind = "executed" /\ last[c].cmd.name = "GET"
        /\ last[c].reply # BulkStringNone
        /\ Cardinality(DOMAIN db[c]) = 2

(***************************************************************************)
(* C22.  Reading accumulates across reads: when a read has delivered only  *)
(* the first bytes of a complete frame, the worker does not crash and      *)
(* keeps those bytes, executing nothing and writing nothing until the rest *)
(* has arrived.                                                            *)
(* handle_client decodes after every read, and the decoder panics on the   *)
(* incomplete frame (C6); the next read would overwrite the buffer from    *)
(* its start.                                                              *)
(***************************************************************************)
C22_SplitFrameAccumulates ==
    [][\A c \in Conns :
          ( /\ state[c] = "Processing"
            /\ sock_in[c] # <<>>
            /\ buffer[c] \o sock_in[c] \in GoodRequests
            /\ state'[c] # state[c] )
          => /\ state'[c] = "Reading"
             /\ buffer'[c] = buffer[c]
             /\ out'[c] = out[c]
             /\ db'[c] = db[c]]_vars

(***************************************************************************)
(* C25.  Strict request/reply alternation per connection: processing a     *)
(* frame writes exactly one reply before the next read, and no reply is    *)
(* written otherwise, so the replies come in the order of the requests.    *)
(* A frame that fails to decode or is no command gets no reply at all: the *)
(* worker panics (C3, C4).                                                 *)
(***************************************************************************)
C25_OneReplyPerFrame ==
    [][\A c \in Conns :
          /\ (state[c] = "Processing" /\ state'[c] # state[c])
                => /\ Len(out'[c]) = Len(out[c]) + 1
                   /\ SubSeq(out'[c], 1, Len(out[c])) = out[c]
          /\ ~(state[c] = "Processing" /\ state'[c] # state[c])
                => out'[c] = out[c]]_vars

(***************************************************************************)
(* C23.  An array of declared length N >= 0 decodes to exactly its N       *)
(* elements in sequence, of any variant, nested arrays and null bulk       *)
(* strings included, and the remaining bytes are those after the N-th      *)
(* element; when an element fails to decode, the array decode returns that *)
(* error as a value.                                                       *)
(* parse_array unwraps the result of each element: a failure is a panic.   *)
(***************************************************************************)
C23_ArrayElements ==
    c_pc = "decoded_raw" =>
        /\ \A ms \in ArrayElements, tail \in ArrayTails :
              c_bytes = serialise_message(Array(ms)) \o tail
                 => c_res = POk(Bytes(tail), Array(ms))
        /\ c_bytes \in BrokenArrayInputs \cup UnknownElementInputs
              => c_res.tag = "Err"

(***************************************************************************)
(* C26.  At most one command is executed per transport read: when one read *)
(* has delivered two complete frames, the handler executes and answers the *)
(* first only, drops the bytes after it and clears the buffer; nothing of  *)
(* the second frame is left to be executed or answered.                    *)
(***************************************************************************)
\* The frames the clients pipeline, and the command each one is.
PipeCases ==
    { [bytes |-> Request(<<<<"S", "E", "T">>, <<"k">>, <<"a">>>>),
       cmd |-> CmdSET(<<"k">>, <<"a">>),
       wire |-> <<"$", "2", "\r", "\n", "O", "K", "\r", "\n">>],
      [bytes |-> Request(<<<<"P", "I", "N", "G">>>>),
       cmd |-> CmdPING,
       wire |-> <<"$", "4", "\r", "\n", "P", "O", "N", "G", "\r", "\n">>] }

C26_OnlyFirstFrameExecuted ==
    [][\A c \in Conns : \A f \in PipeCases : \A g \in PipeFrames :
          ( /\ state[c] = "Processing"
            /\ buffer[c] = f.bytes \o g
            /\ <<state[c], buffer[c], out[c], db[c]>>'
                  # <<state[c], buffer[c], out[c], db[c]>> )
          => /\ state'[c] = "Reading"
             /\ buffer'[c] = <<>>
             /\ sock_in'[c] = sock_in[c]
             /\ out'[c] = Append(out[c], f.wire)
             /\ last'[c].kind = "executed"
             /\ last'[c].cmd = f.cmd
             /\ Len(setlog') = Len(setlog) + (IF f.cmd.name = "SET" THEN 1 ELSE 0)
             /\ DOMAIN db'[c] =
                   DOMAIN db[c] \cup (IF f.cmd.name = "SET" THEN {f.cmd.key} ELSE {})]_vars

\* The one read of a connection delivered SET k a and GET k together: the
\* Set was executed and answered, the Get is gone without a reply.
C26_Witness ==
    \E c \in Conns :
        /\ nsent = 1
        /\ state[c] = "Reading"
        /\ buffer[c] = <<>>
        /\ sock_in[c] = <<>>
        /\ last[c].kind = "executed"
        /\ last[c].cmd = CmdSET(<<"k">>, <<"a">>)
        /\ out[c] = << <<"$", "2", "\r", "\n", "O", "K", "\r", "\n">> >>

=============================================================================
